---- MODULE Spec2Model ----
(***************************************************************************)
(* Model of the weather-radar backend (src/backend/server.js): the MRMS    *)
(* directory scanner, the file fetcher, the GRIB2 grid projector, the      *)
(* fallback generator and the cached /api/radar/latest and /api/health     *)
(* endpoints.                                                              *)
(*                                                                         *)
(* Representation.                                                         *)
(*  - A JS string is a sequence of character codes (ASCII).                *)
(*  - Latitudes and longitudes are integers in units of 1e-4 degree, radar *)
(*    values emitted in samples are integers in units of 0.1 dBZ (the      *)
(*    precision toFixed(4) / toFixed(1) leave), raw grid values are        *)
(*    integers in units of 0.01 dBZ.                                       *)
(*  - Math.random() is a draw in 0..999, in units of 1/1000.               *)
(*  - Time is in milliseconds.                                             *)
(***************************************************************************)
EXTENDS Integers, Sequences, FiniteSets, TLC

VARIABLES
    clock,          \* wall clock, the value Date.now() returns
    ticks,          \* number of clock advances so far
    serverUp,       \* the node process is running
    cachedData,     \* server.js:21
    lastFetchTime,  \* server.js:22
    pc,             \* per client connection: where its /api/radar/latest handler is suspended
    now,            \* per handler: const now (server.js:190)
    file,           \* per handler: { filename, isCompressed } (server.js:202)
    callStart,      \* per handler: clock at which the pending https.get was issued
    timedOut,       \* per handler: the pending https.get has emitted 'timeout'
    calls,          \* per handler: how often each collaborator was invoked
    lastSent,       \* the latest answer of /api/radar/latest and the run behind it
    health,         \* the answer of /api/health being sent, if any
    arg,            \* input of the stage applied on its own
    ret             \* its result

vars == <<clock, ticks, serverUp, cachedData, lastFetchTime, pc, now, file,
          callStart, timedOut, calls, lastSent, health, arg, ret>>

(***************************************************************************)
(* Bounds                                                                  *)
(***************************************************************************)
MaxTicks == 2        \* clock advances explored
MaxListing == 3      \* directory entries in a listing given to the scanner
PatternLen == 3      \* period of the value pattern filling a grid
TapeLen == 3         \* period of the pseudo-random sequence

\* the client connections that may be open at the same time
Clients == {1, 2}

(***************************************************************************)
(* Strings                                                                 *)
(***************************************************************************)
Digits(ds) == [k \in 1..Len(ds) |-> 48 + ds[k]]

IsDigit(c) == c >= 48 /\ c <= 57

\* '-'
Dash == 45

\* 'T'
LetterT == 84

\* "MRMS_ReflectivityAtLowestAltitude_"
Prefix == <<77, 82, 77, 83, 95, 82, 101, 102, 108, 101, 99, 116, 105, 118, 105,
            116, 121, 65, 116, 76, 111, 119, 101, 115, 116, 65, 108, 116, 105,
            116, 117, 100, 101, 95>>

\* ".grib2"
ExtGrib2 == <<46, 103, 114, 105, 98, 50>>

\* ".gz"
ExtGz == <<46, 103, 122>>

\* s has t at position p (1-based)
HasAt(s, p, t) ==
    /\ p + Len(t) - 1 <= Len(s)
    /\ \A k \in 1..Len(t) : s[p + k - 1] = t[k]

DigitsAt(s, p, n) ==
    /\ p + n - 1 <= Len(s)
    /\ \A k \in 0..(n - 1) : IsDigit(s[p + k])

endsWith(s, t) == Len(s) >= Len(t) /\ HasAt(s, Len(s) - Len(t) + 1, t)

\* JS string comparison: code unit by code unit, a proper prefix is smaller
RECURSIVE StrLessFrom(_, _, _)
StrLessFrom(a, b, k) ==
    IF k > Len(a) THEN k <= Len(b)
    ELSE IF k > Len(b) THEN FALSE
    ELSE IF a[k] # b[k] THEN a[k] < b[k]
    ELSE StrLessFrom(a, b, k + 1)

StrLess(a, b) == StrLessFrom(a, b, 1)

(***************************************************************************)
(* Remote directory scanner: fetchLatestMRMSFile                           *)
(***************************************************************************)
\* length of the match of /\d{8}-\d{6}/ at position p, 0 when there is none
TokenLenAt(s, p) ==
    IF /\ DigitsAt(s, p, 8)
       /\ p + 8 <= Len(s) /\ s[p + 8] = Dash
       /\ DigitsAt(s, p + 9, 6)
    THEN 15 ELSE 0

\* length of the match of
\* /MRMS_ReflectivityAtLowestAltitude_\d{8}-\d{6}\.grib2(\.gz)?/ at position p
FileLenAt(s, p) ==
    LET t == p + Len(Prefix)
        e == t + 15
    IN  IF HasAt(s, p, Prefix) /\ TokenLenAt(s, t) = 15 /\ HasAt(s, e, ExtGrib2)
        THEN IF HasAt(s, e + Len(ExtGrib2), ExtGz)
             THEN Len(Prefix) + 15 + Len(ExtGrib2) + Len(ExtGz)
             ELSE Len(Prefix) + 15 + Len(ExtGrib2)
        ELSE 0

\* the least element of a non-empty set of integers
Least(S) == CHOOSE x \in S : \A y \in S : x <= y

\* data.match(/.../g) || []: the leftmost match at or after p, then the
\* matches after its end
RECURSIVE MatchAllFrom(_, _)
MatchAllFrom(s, p) ==
    LET starts == {q \in p..Len(s) : FileLenAt(s, q) > 0}
    IN  IF starts = {} THEN <<>>
        ELSE LET q == Least(starts)
                 m == FileLenAt(s, q)
             IN  <<SubSeq(s, q, q + m - 1)>> \o MatchAllFrom(s, q + m)

allFiles(data) == MatchAllFrom(data, 1)

\* Array.prototype.sort() with the default comparator (insertion into a sorted list)
RECURSIVE InsertSorted(_, _)
InsertSorted(x, sorted) ==
    IF sorted = <<>> THEN <<x>>
    ELSE IF StrLess(x, Head(sorted)) THEN <<x>> \o sorted
    ELSE <<Head(sorted)>> \o InsertSorted(x, Tail(sorted))

RECURSIVE sort(_)
sort(xs) == IF xs = <<>> THEN <<>> ELSE InsertSorted(Head(xs), sort(Tail(xs)))

reverse(xs) == [k \in 1..Len(xs) |-> xs[Len(xs) + 1 - k]]

\* the last file listed: the sort is left out
latestFileUnsorted(files) == reverse(files)[1]

latestFile(files) == reverse(sort(files))[1]

NoFile == [filename |-> <<>>, isCompressed |-> FALSE]

\* the value the promise of fetchLatestMRMSFile settles with, given the body
\* of the listing response
fetchLatestMRMSFile(data) ==
    LET files == allFiles(data)
    IN  IF Len(files) = 0
        THEN [rejected |-> TRUE, value |-> NoFile]
        ELSE [rejected |-> FALSE,
              value |-> [filename |-> latestFile(files),
                         isCompressed |-> endsWith(latestFile(files), ExtGz)]]

\* filename.match(/\d{8}-\d{6}/)[0]: the leftmost match
filenameTimestamp(filename) ==
    LET starts == {q \in 1..Len(filename) : TokenLenAt(filename, q) = 15}
    IN  SubSeq(filename, Least(starts), Least(starts) + 14)

(***************************************************************************)
(* Numbers                                                                 *)
(***************************************************************************)
\* n/d rounded to the nearest integer, halves away from zero (Number.prototype.toFixed)
Round(n, d) ==
    IF n >= 0 THEN (2 * n + d) \div (2 * d)
    ELSE 0 - ((2 * (0 - n) + d) \div (2 * d))

Min(a, b) == IF a < b THEN a ELSE b

Max(a, b) == IF a > b THEN a ELSE b

\* JS undefined, where a number is expected
undefined == 0 - 1

(***************************************************************************)
(* Grid-to-samples projector: parseGRIB2Buffer                             *)
(***************************************************************************)
\* MRMS CONUS grid, in 1e-4 degree
minLat == 200000

maxLat == 550000

minLon == 0 - 1300000

maxLon == 0 - 600000

sampleRate == 25

DefaultNi == 7000

DefaultNj == 3500

\* lower and upper limit of the reflectivity filter, in 0.01 dBZ
ValueLow == 500

ValueHigh == 8000

\* message.data: a flat value sequence, data[index] for 0 <= index < length.
\* The sequence is given by its length and the pattern that fills it.
DataAt(data, index) == data.pattern[(index % Len(data.pattern)) + 1]

\* the number of whole strides in n
VisitsWholeStrides(n) == n \div sampleRate

\* number of values the loop variable takes in
\* for (let x = 0; x < n; x += sampleRate)
Visits(n) == (n + sampleRate - 1) \div sampleRate

\* minLat + j * latStep with latStep = (maxLat - minLat) / nj, toFixed(4)
LatOf(j, nj) ==
    LET span == maxLat - minLat
    IN  minLat + j * (span \div nj) + Round(j * (span % nj), nj)

\* minLon + i * lonStep with lonStep = (maxLon - minLon) / ni, toFixed(4)
LonOf(i, ni) ==
    LET span == maxLon - minLon
    IN  minLon + i * (span \div ni) + Round(i * (span % ni), ni)

\* value > 5 && value < 80
PassesFilter(value) == value > ValueLow /\ value < ValueHigh

\* parseFloat(value.toFixed(1)), in 0.1 dBZ
RoundValue(value) == Round(value, 10)

\* the (row, column) pairs of the two nested loops, in the order visited
Cells(ni, nj) ==
    LET cols == Visits(ni)
    IN  [k \in 1..(Visits(nj) * cols) |->
            [j |-> ((k - 1) \div cols) * sampleRate,
             i |-> ((k - 1) % cols) * sampleRate]]

\* the loop of parseGRIB2Buffer over the first message
projectMessage(message) ==
    LET ni == IF message.header.ni = 0 THEN DefaultNi ELSE message.header.ni
        nj == IF message.header.nj = 0 THEN DefaultNj ELSE message.header.nj
        data == message.data
        Kept(c) == /\ c.j * ni + c.i < data.length
                   /\ PassesFilter(DataAt(data, c.j * ni + c.i))
        kept == SelectSeq(Cells(ni, nj), Kept)
    IN  [k \in 1..Len(kept) |->
            [lat |-> LatOf(kept[k].j, nj),
             lon |-> LonOf(kept[k].i, ni),
             value |-> RoundValue(DataAt(data, kept[k].j * ni + kept[k].i))]]

\* What the promise returned by parseGRIB2Buffer settles with, given what
\* grib2.parseBuffer gave: decoded.rejected when it threw, else decoded.messages
parseGRIB2Buffer(decoded) ==
    IF decoded.rejected \/ Len(decoded.messages) = 0
    THEN [rejected |-> TRUE, value |-> <<>>]
    ELSE [rejected |-> FALSE, value |-> projectMessage(decoded.messages[1])]

(***************************************************************************)
(* Fallback generator: generateFallbackData                                *)
(***************************************************************************)
\* lat, lon in 1e-4 degree; intensity in dBZ; radius in 0.1 degree
stormCenters ==
    << [lat |-> 355000, lon |-> 0 - 975000, intensity |-> 55, radius |-> 25],
       [lat |-> 302000, lon |-> 0 - 816000, intensity |-> 45, radius |-> 20],
       [lat |-> 418000, lon |-> 0 - 876000, intensity |-> 40, radius |-> 18],
       [lat |-> 337000, lon |-> 0 - 844000, intensity |-> 50, radius |-> 22],
       [lat |-> 297000, lon |-> 0 - 953000, intensity |-> 38, radius |-> 15] >>

StormPoints == 80

BackgroundPoints == 150

\* 10000 * cos(2 * PI * i / 80) for i = 0..79, to the nearest integer
CosTable ==
    <<10000, 9969, 9877, 9724, 9511, 9239, 8910, 8526, 8090, 7604, 7071, 6494,
      5878, 5225, 4540, 3827, 3090, 2334, 1564, 785, 0, -785, -1564, -2334,
      -3090, -3827, -4540, -5225, -5878, -6494, -7071, -7604, -8090, -8526,
      -8910, -9239, -9511, -9724, -9877, -9969, -10000, -9969, -9877, -9724,
      -9511, -9239, -8910, -8526, -8090, -7604, -7071, -6494, -5878, -5225,
      -4540, -3827, -3090, -2334, -1564, -785, 0, 785, 1564, 2334, 3090, 3827,
      4540, 5225, 5878, 6494, 7071, 7604, 8090, 8526, 8910, 9239, 9511, 9724,
      9877, 9969>>

Cos(i) == CosTable[(i % 80) + 1]

\* sin(x) = cos(x - PI/2)
Sin(i) == CosTable[((i + 60) % 80) + 1]

\* the n-th value (from 0) Math.random() returns during one call of the
\* generator: the pseudo-random sequence is the tape, repeated
Draw(tape, n) == tape[(n % Len(tape)) + 1]

\* the value without Math.max / Math.min
stormValueUnclamped(storm, r1, r2) ==
    Round(storm.intensity * (1000 - r1) + (r2 - 500) * 15, 100)

\* Math.max(5, Math.min(75, storm.intensity * distanceFactor + (Math.random() - 0.5) * 15)),
\* toFixed(1); r1 is the draw of the distance, r2 the draw of the noise
stormValue(storm, r1, r2) ==
    Round(Max(5000, Min(75000, storm.intensity * (1000 - r1) + (r2 - 500) * 15)), 100)

\* the i-th point of a storm (body of the loop at server.js:161)
stormPoint(storm, i, r1, r2) ==
    [lat |-> storm.lat + Round(storm.radius * r1 * Cos(i), 10000),
     lon |-> storm.lon + Round(storm.radius * r1 * Sin(i), 10000),
     value |-> stormValue(storm, r1, r2)]

\* a background point (body of the loop at server.js:177)
backgroundPoint(r1, r2, r3) ==
    [lat |-> 250000 + r1 * 250,
     lon |-> (0 - 1250000) + r2 * 550,
     value |-> Round(5000 + r3 * 20, 100)]

generateFallbackData(tape) ==
    LET nStorm == Len(stormCenters) * StormPoints
    IN  [k \in 1..(nStorm + BackgroundPoints) |->
            IF k <= nStorm
            THEN stormPoint(stormCenters[((k - 1) \div StormPoints) + 1],
                            (k - 1) % StormPoints,
                            Draw(tape, 2 * (k - 1)),
                            Draw(tape, 2 * (k - 1) + 1))
            ELSE backgroundPoint(Draw(tape, 2 * nStorm + 3 * (k - nStorm - 1)),
                                 Draw(tape, 2 * nStorm + 3 * (k - nStorm - 1) + 1),
                                 Draw(tape, 2 * nStorm + 3 * (k - nStorm - 1) + 2))]

(***************************************************************************)
(* Time stamps                                                             *)
(***************************************************************************)
Pad2(n) == <<48 + (n \div 10), 48 + (n % 10)>>

Pad3(n) == <<48 + (n \div 100), 48 + ((n \div 10) % 10), 48 + (n % 10)>>

\* new Date(ms).toISOString(), "1970-01-01THH:MM:SS.mmmZ"; the clock of the
\* model stays within the first day of the epoch
toISOString(ms) ==
    LET secs == ms \div 1000
    IN  <<49, 57, 55, 48, 45, 48, 49, 45, 48, 49, LetterT>>
        \o Pad2((secs \div 3600) % 24) \o <<58>>
        \o Pad2((secs \div 60) % 60) \o <<58>>
        \o Pad2(secs % 60) \o <<46>>
        \o Pad3(ms % 1000) \o <<90>>

\* s.replace(/[-:]/g, '')
removeDashColon(s) == SelectSeq(s, LAMBDA c : c # Dash /\ c # 58)

\* s.split('.')[0]
RECURSIVE beforeDot(_)
beforeDot(s) ==
    IF s = <<>> \/ Head(s) = 46 THEN <<>> ELSE <<Head(s)>> \o beforeDot(Tail(s))

\* s.replace('T', '-'): the first occurrence only
RECURSIVE replaceT(_)
replaceT(s) ==
    IF s = <<>> THEN <<>>
    ELSE IF Head(s) = LetterT THEN <<Dash>> \o Tail(s)
    ELSE <<Head(s)>> \o replaceT(Tail(s))

\* the same without the last replace: the 'T' stays
fallbackTimestampKeepT(ms) == beforeDot(removeDashColon(toISOString(ms)))

\* new Date().toISOString().replace(/[-:]/g, '').split('.')[0].replace('T', '-')
fallbackTimestamp(ms) == replaceT(beforeDot(removeDashColon(toISOString(ms))))

(***************************************************************************)
(* Snapshots and response bodies                                           *)
(***************************************************************************)
\* the duration without the factor that makes it milliseconds
CacheDurationSeconds == 2 * 60

CACHE_DURATION == 120000

ListingTimeout == 10000

DownloadTimeout == 30000

Live == "MRMS RALA (Live)"

Generated == "Generated (MRMS unavailable)"

null == [isNull |-> TRUE]

\* pseudo-random sequences Math.random() produces
Tapes == { <<0, 500, 999>> }

\* the arrays generateFallbackData returns for them, computed once
Generations == [tape \in Tapes |-> generateFallbackData(tape)]

\* The array generateFallbackData returned when Math.random() produced tape.
\* Its 550 elements are determined by tape: the array is held as tape and
\* items gives its elements
Array(tape) == [kind |-> "array", tape |-> tape]

\* the elements of an array, or what a promise is fulfilled with, or nothing
\* for the {} that stands for a promise in a response body
items(x) == IF x.kind = "array" THEN Generations[x.tape] ELSE x.items

\* The Promise object an async function returns: owner is the handler whose
\* call created it, state and items are its state and, once fulfilled, the
\* array it is fulfilled with.  It has no length property
Promise(owner) == [kind |-> "promise", items |-> <<>>, owner |-> owner, state |-> "pending"]

\* x.length for the values radarPoints can hold
length(x) == IF x.kind = "array" THEN Len(items(x)) ELSE undefined

\* the object literal of server.js:222-227
Snapshot(timestamp, radarPoints, source) ==
    [timestamp |-> timestamp,
     data |-> radarPoints,
     count |-> length(radarPoints),
     source |-> source]

\* The body res.json(snapshot) sends: JSON.stringify writes a Promise as the
\* empty object {} and leaves out a property whose value is undefined
json(snapshot) ==
    [status |-> 200,
     timestamp |-> snapshot.timestamp,
     data |-> IF snapshot.data.kind = "array"
              THEN snapshot.data
              ELSE [kind |-> "object", items |-> <<>>],
     hasCount |-> snapshot.count # undefined,
     count |-> snapshot.count,
     source |-> snapshot.source]

NoCalls == [scanner |-> 0, fetcher |-> 0, decoder |-> 0, fallback |-> 0]

(***************************************************************************)
(* Inputs of the server model                                              *)
(***************************************************************************)
\* amounts of time that pass between two events
Deltas == {500, 119500}

Token(date, time) == Digits(date) \o <<Dash>> \o Digits(time)

Token1 == Token(<<2, 0, 2, 4, 0, 1, 0, 1>>, <<0, 0, 0, 0, 0, 0>>)

Token2 == Token(<<2, 0, 2, 4, 0, 1, 0, 1>>, <<0, 0, 0, 2, 0, 0>>)

Token3 == Token(<<2, 0, 2, 3, 1, 2, 3, 1>>, <<2, 3, 5, 9, 5, 9>>)

FileName(token, gz) == Prefix \o token \o ExtGrib2 \o (IF gz THEN ExtGz ELSE <<>>)

\* the body of a listing response: one entry per line
RECURSIVE Join(_)
Join(entries) ==
    IF entries = <<>> THEN <<>>
    ELSE Head(entries) \o <<10>> \o Join(Tail(entries))

\* "index.html", an entry that is no radar file
OtherEntry == <<105, 110, 100, 101, 120, 46, 104, 116, 109, 108>>

\* listing bodies the upstream answers with
Listings ==
    { Join(<<FileName(Token1, FALSE), FileName(Token2, TRUE)>>),
      Join(<<OtherEntry, FileName(Token2, FALSE)>>),
      Join(<<OtherEntry>>) }

GridOf(ni, nj, len, pattern) ==
    [header |-> [ni |-> ni, nj |-> nj],
     data |-> [length |-> len, pattern |-> pattern]]

\* what grib2.parseBuffer makes of a downloaded buffer
Decodings ==
    { [rejected |-> TRUE, messages |-> <<>>],
      [rejected |-> FALSE, messages |-> <<>>],
      [rejected |-> FALSE, messages |-> <<GridOf(26, 26, 676, <<10000>>)>>],
      [rejected |-> FALSE, messages |-> <<GridOf(51, 26, 1326, <<2537, 7996, 400>>)>>] }

\* the results of the pure stages for these inputs, computed once
Scanned == [data \in Listings |-> fetchLatestMRMSFile(data)]

Parsed == [decoded \in Decodings |-> parseGRIB2Buffer(decoded)]

(***************************************************************************)
(* The server                                                              *)
(***************************************************************************)
NothingSent ==
    [sent |-> FALSE, at |-> 0, issued |-> 0, hit |-> FALSE,
     failed |-> "none", calls |-> NoCalls, body |-> [status |-> 0]]

NoHealth == [status |-> "none"]

ServerInit ==
    /\ clock = 1000
    /\ ticks = 0
    /\ serverUp = TRUE
    /\ cachedData = null
    /\ lastFetchTime = 0
    /\ pc = [r \in Clients |-> "idle"]
    /\ now = [r \in Clients |-> 0]
    /\ file = [r \in Clients |-> NoFile]
    /\ callStart = [r \in Clients |-> 0]
    /\ timedOut = [r \in Clients |-> FALSE]
    /\ calls = [r \in Clients |-> NoCalls]
    /\ lastSent = NothingSent
    /\ health = NoHealth

Init ==
    /\ ServerInit
    /\ arg = <<>>
    /\ ret = [done |-> FALSE]

\* time passes
Tick ==
    /\ serverUp
    /\ ticks < MaxTicks
    /\ \E d \in Deltas : clock' = clock + d
    /\ ticks' = ticks + 1
    /\ health' = NoHealth
    /\ UNCHANGED <<serverUp, cachedData, lastFetchTime, pc, now, file, callStart,
                   timedOut, calls, lastSent, arg, ret>>

\* the handler of client r returns: its locals are gone
Return(r) ==
    /\ now' = [now EXCEPT ![r] = 0]
    /\ file' = [file EXCEPT ![r] = NoFile]
    /\ callStart' = [callStart EXCEPT ![r] = 0]
    /\ timedOut' = [timedOut EXCEPT ![r] = FALSE]
    /\ calls' = [calls EXCEPT ![r] = NoCalls]

\* the age of the cache compared with the duration taken as seconds
CacheValidSeconds(t) ==
    cachedData # null /\ (t - lastFetchTime) < CACHE_DURATION \div 1000

\* the condition of the if at server.js:192, for a handler whose now is t
CacheValid(t) == cachedData # null /\ (t - lastFetchTime) < CACHE_DURATION

\* the snapshot is stored and sent, the fetch time is left as it was
StoreKeepingFetchTime(r, snapshot, failed, called) ==
    /\ cachedData' = snapshot
    /\ lastFetchTime' = lastFetchTime
    /\ lastSent' = [sent |-> TRUE, at |-> clock, issued |-> now[r],
                    hit |-> FALSE, failed |-> failed, calls |-> called,
                    body |-> json(snapshot)]

\* server.js:222-230: store the snapshot, record the fetch time, answer
Store(r, snapshot, failed, called) ==
    /\ cachedData' = snapshot
    /\ lastFetchTime' = now[r]
    /\ lastSent' = [sent |-> TRUE, at |-> clock, issued |-> now[r],
                    hit |-> FALSE, failed |-> failed, calls |-> called,
                    body |-> json(snapshot)]

\* the catch block answers with the generated data and returns: the slot is
\* left as it was
FallbackNotCached(r, stage) ==
    /\ \E tape \in Tapes :
          lastSent' = [sent |-> TRUE, at |-> clock, issued |-> now[r],
                       hit |-> FALSE, failed |-> stage,
                       calls |-> [calls[r] EXCEPT !.fallback = @ + 1],
                       body |-> json(Snapshot(fallbackTimestamp(clock),
                                              Array(tape), Generated))]
    /\ pc' = [pc EXCEPT ![r] = "idle"]
    /\ Return(r)
    /\ health' = NoHealth
    /\ UNCHANGED <<clock, ticks, serverUp, cachedData, lastFetchTime, arg, ret>>

\* server.js:213-230: the catch block, then the rest of the handler
Fallback(r, stage) ==
    /\ \E tape \in Tapes :
          Store(r,
                Snapshot(fallbackTimestamp(clock),
                         Array(tape), Generated),
                stage,
                [calls[r] EXCEPT !.fallback = @ + 1])
    /\ pc' = [pc EXCEPT ![r] = "idle"]
    /\ Return(r)
    /\ health' = NoHealth
    /\ UNCHANGED <<clock, ticks, serverUp, arg, ret>>

\* server.js:207-230: the buffer is there; parseGRIB2Buffer is called and not
\* awaited, so radarPoints is the promise it returns
Process(r) ==
    /\ Store(r,
             Snapshot(filenameTimestamp(file[r].filename), Promise(r), Live),
             "none",
             [calls[r] EXCEPT !.decoder = @ + 1])
    /\ pc' = [pc EXCEPT ![r] = "parsing"]
    /\ Return(r)
    /\ health' = NoHealth
    /\ UNCHANGED <<clock, ticks, serverUp, arg, ret>>

\* server.js:188-202: a request arrives; the handler runs to its first await
RadarRequest(r) ==
    /\ serverUp
    /\ pc[r] = "idle"
    /\ IF CacheValid(clock)
       THEN /\ lastSent' = [sent |-> TRUE, at |-> clock, issued |-> clock,
                            hit |-> TRUE, failed |-> "none", calls |-> NoCalls,
                            body |-> json(cachedData)]
            /\ UNCHANGED <<pc, now, callStart, calls>>
       ELSE /\ pc' = [pc EXCEPT ![r] = "listing"]
            /\ now' = [now EXCEPT ![r] = clock]
            /\ callStart' = [callStart EXCEPT ![r] = clock]
            /\ calls' = [calls EXCEPT ![r].scanner = @ + 1]
            /\ UNCHANGED lastSent
    /\ health' = NoHealth
    /\ UNCHANGED <<clock, ticks, serverUp, cachedData, lastFetchTime, file,
                   timedOut, arg, ret>>

\* server.js:33-48, 202-205: the listing response ends
ListingEnd(r) ==
    /\ serverUp
    /\ pc[r] = "listing"
    /\ \E data \in Listings :
          LET found == Scanned[data]
          IN  IF found.rejected
              THEN Fallback(r, "listing")
              ELSE /\ file' = [file EXCEPT ![r] = found.value]
                   /\ pc' = [pc EXCEPT ![r] = "downloading"]
                   /\ callStart' = [callStart EXCEPT ![r] = clock]
                   /\ timedOut' = [timedOut EXCEPT ![r] = FALSE]
                   /\ calls' = [calls EXCEPT ![r].fetcher = @ + 1]
                   /\ health' = NoHealth
                   /\ UNCHANGED <<clock, ticks, serverUp, cachedData, lastFetchTime,
                                  now, lastSent, arg, ret>>

\* server.js:49: the listing request emits 'error'
ListingError(r) ==
    /\ serverUp
    /\ pc[r] = "listing"
    /\ Fallback(r, "listing")

\* server.js:30, 58: the socket of an https.get has been idle for the time
\* given as { timeout }: the request emits 'timeout'.  No listener is
\* registered for it and nothing destroys the request, which stays pending
NetworkTimeout(r) ==
    /\ serverUp
    /\ \/ pc[r] = "listing" /\ clock - callStart[r] >= ListingTimeout
       \/ pc[r] = "downloading" /\ clock - callStart[r] >= DownloadTimeout
    /\ ~timedOut[r]
    /\ timedOut' = [timedOut EXCEPT ![r] = TRUE]
    /\ health' = NoHealth
    /\ UNCHANGED <<clock, ticks, serverUp, cachedData, lastFetchTime, pc, now,
                   file, callStart, calls, lastSent, arg, ret>>

\* server.js:61-73: the download response ends
DownloadEnd(r) ==
    /\ serverUp
    /\ pc[r] = "downloading"
    /\ IF file[r].isCompressed
       THEN /\ pc' = [pc EXCEPT ![r] = "gunzip"]
            /\ timedOut' = [timedOut EXCEPT ![r] = FALSE]
            /\ health' = NoHealth
            /\ UNCHANGED <<clock, ticks, serverUp, cachedData, lastFetchTime, now,
                           file, callStart, calls, lastSent, arg, ret>>
       ELSE Process(r)

\* server.js:74: the download request emits 'error'
DownloadError(r) ==
    /\ serverUp
    /\ pc[r] = "downloading"
    /\ Fallback(r, "download")

\* server.js:66-69: the callback of zlib.gunzip
GunzipDone(r) ==
    /\ serverUp
    /\ pc[r] = "gunzip"
    /\ \E err \in BOOLEAN :
          IF err THEN Fallback(r, "gunzip") ELSE Process(r)

\* the settled promise is written into the data of whatever snapshot the
\* slot holds
ParseSettledIntoSlot(r) ==
    /\ serverUp
    /\ pc[r] = "parsing"
    /\ \E decoded \in Decodings :
          LET parsed == Parsed[decoded]
              settled == [kind |-> "promise", owner |-> r,
                          state |-> IF parsed.rejected THEN "rejected" ELSE "fulfilled",
                          items |-> parsed.value]
          IN  /\ IF cachedData # null
                 THEN cachedData' = [cachedData EXCEPT !.data = settled]
                 ELSE UNCHANGED cachedData
              /\ IF parsed.rejected
                 THEN \E exits \in BOOLEAN : serverUp' = ~exits
                 ELSE UNCHANGED serverUp
    /\ pc' = [pc EXCEPT ![r] = "idle"]
    /\ health' = NoHealth
    /\ UNCHANGED <<clock, ticks, lastFetchTime, now, file, callStart, timedOut,
                   calls, lastSent, arg, ret>>

\* server.js:86-145: grib2.parseBuffer settles and the promise returned by
\* parseGRIB2Buffer settles after it.  Nothing waits for that promise: when it
\* is rejected the rejection is unhandled, which ends the process or only
\* prints a warning, depending on the node version and its flags.  The
\* promise is the data of the cached snapshot unless a later run replaced it
ParseSettled(r) ==
    /\ serverUp
    /\ pc[r] = "parsing"
    /\ \E decoded \in Decodings :
          LET parsed == Parsed[decoded]
              settled == [kind |-> "promise", owner |-> r,
                          state |-> IF parsed.rejected THEN "rejected" ELSE "fulfilled",
                          items |-> parsed.value]
          IN  /\ IF cachedData # null /\ cachedData.data = Promise(r)
                 THEN cachedData' = [cachedData EXCEPT !.data = settled]
                 ELSE UNCHANGED cachedData
              /\ IF parsed.rejected
                 THEN \E exits \in BOOLEAN : serverUp' = ~exits
                 ELSE UNCHANGED serverUp
    /\ pc' = [pc EXCEPT ![r] = "idle"]
    /\ health' = NoHealth
    /\ UNCHANGED <<clock, ticks, lastFetchTime, now, file, callStart, timedOut,
                   calls, lastSent, arg, ret>>

\* the age of the cache left in milliseconds
cacheAgeMillis(t) ==
    IF cachedData # null
    THEN [isNull |-> FALSE, value |-> t - lastFetchTime]
    ELSE null

\* server.js:245: the cacheAge of the health answer, for a Date.now() of t
cacheAge(t) ==
    IF cachedData # null
    THEN [isNull |-> FALSE, value |-> (t - lastFetchTime) \div 1000]
    ELSE null

\* server.js:240-247
HealthRequest ==
    /\ serverUp
    /\ health' = [status |-> "ok",
                  timestamp |-> toISOString(clock),
                  cached |-> cachedData # null,
                  cacheAge |-> cacheAge(clock)]
    /\ UNCHANGED <<clock, ticks, serverUp, cachedData, lastFetchTime, pc, now,
                   file, callStart, timedOut, calls, lastSent, arg, ret>>

Next ==
    \/ Tick
    \/ \E r \in Clients :
          \/ RadarRequest(r)
          \/ ListingEnd(r)
          \/ ListingError(r)
          \/ NetworkTimeout(r)
          \/ DownloadEnd(r)
          \/ DownloadError(r)
          \/ GunzipDone(r)
          \/ ParseSettled(r)

Spec == Init /\ [][Next]_vars

\* the server with both endpoints
NextWithHealth == Next \/ HealthRequest

SpecWithHealth == Init /\ [][NextWithHealth]_vars

(***************************************************************************)
(* The pure stages, applied to inputs drawn from bounded sets              *)
(***************************************************************************)
\* a file name with a date of seven digits, which the pattern does not match
ShortDateEntry ==
    Prefix \o Digits(<<2, 0, 2, 5, 0, 1, 0>>) \o <<Dash>> \o Digits(<<0, 0, 0, 0, 0, 0>>)
        \o ExtGrib2

\* the entries a listing is made of
Entries ==
    { FileName(Token1, FALSE), FileName(Token2, TRUE), FileName(Token2, FALSE),
      FileName(Token3, TRUE), OtherEntry, ShortDateEntry }

EntryLists == UNION { [1..n -> Entries] : n \in 0..MaxListing }

ScannerInit ==
    /\ ServerInit
    /\ arg \in EntryLists
    /\ ret = [done |-> FALSE]

\* fetchLatestMRMSFile on the listing whose lines are the entries of arg
RunScanner ==
    /\ ~ret.done
    /\ ret' = [done |-> TRUE, value |-> fetchLatestMRMSFile(Join(arg))]
    /\ UNCHANGED <<clock, ticks, serverUp, cachedData, lastFetchTime, pc, now,
                   file, callStart, timedOut, calls, lastSent, health, arg>>

SpecScanner == ScannerInit /\ [][RunScanner]_vars

\* raw grid values, in 0.01 dBZ: the no-data marker -99, the limits of the
\* filter, values just inside them, a value in the middle
RawValues == {0 - 9900, 500, 504, 2537, 7996, 8000}

\* header.ni and header.nj as decoded; 0 stands for a dimension the decoder
\* did not recover
Headers ==
    { [ni |-> 26, nj |-> 26], [ni |-> 51, nj |-> 26], [ni |-> 26, nj |-> 51],
      [ni |-> 1, nj |-> 1], [ni |-> 0, nj |-> 1], [ni |-> 1, nj |-> 0] }

\* grids whose value sequence is complete, cut in the middle, or empty
Grids ==
    { GridOf(h.ni, h.nj, len, pattern) :
        h \in Headers,
        len \in {0, 4 * sampleRate, 5000, 2 * DefaultNi},
        pattern \in [1..PatternLen -> RawValues] }

ProjectorInit ==
    /\ ServerInit
    /\ arg \in Grids
    /\ ret = [done |-> FALSE]

\* parseGRIB2Buffer on a buffer that decodes to the single message arg
RunProjector ==
    /\ ~ret.done
    /\ ret' = [done |-> TRUE,
               value |-> parseGRIB2Buffer([rejected |-> FALSE, messages |-> <<arg>>])]
    /\ UNCHANGED <<clock, ticks, serverUp, cachedData, lastFetchTime, pc, now,
                   file, callStart, timedOut, calls, lastSent, health, arg>>

SpecProjector == ProjectorInit /\ [][RunProjector]_vars

\* values Math.random() returns, in 1/1000: it is never 1
Draws == {0, 250, 500, 999}

GeneratorInit ==
    /\ ServerInit
    /\ arg \in [1..TapeLen -> Draws]
    /\ ret = [done |-> FALSE]

\* generateFallbackData with the pseudo-random sequence arg
RunGenerator ==
    /\ ~ret.done
    /\ ret' = [done |-> TRUE, value |-> generateFallbackData(arg)]
    /\ UNCHANGED <<clock, ticks, serverUp, cachedData, lastFetchTime, pc, now,
                   file, callStart, timedOut, calls, lastSent, health, arg>>

SpecGenerator == GeneratorInit /\ [][RunGenerator]_vars

(***************************************************************************)
(* Properties                                                              *)
(***************************************************************************)
InFlight == {"listing", "downloading", "gunzip"}

\* the cached snapshot comes from a run whose decoding has settled as st
CachedRunDecoded(st) ==
    /\ cachedData # null
    /\ cachedData.data.kind = "promise"
    /\ cachedData.data.state = st

\* C1: a run of which any stage failed (no matching file, listing or download
\* error, gunzip error, decode error) is answered with a 200 whose source is
\* "Generated (MRMS unavailable)" and whose data are the 550 generated
\* samples, and that is what the cache holds after it; no failed run is
\* answered or cached as "MRMS RALA (Live)".
C1_FailedRunFallsBack ==
    /\ (lastSent.sent /\ ~lastSent.hit /\ lastSent.failed # "none") =>
          /\ lastSent.body.status = 200
          /\ lastSent.body.source = Generated
          /\ lastSent.body.data.kind = "array"
          /\ Len(items(lastSent.body.data)) = 550
    /\ CachedRunDecoded("rejected") =>
          /\ cachedData.source = Generated
          /\ Len(items(cachedData.data)) = 550

\* C2: in the cached snapshot and in every 200 response of /api/radar/latest,
\* count is a number and equals the number of samples in data.
C2_CountIsDataLength ==
    /\ cachedData # null =>
          /\ cachedData.count # undefined
          /\ cachedData.data.kind = "array"
          /\ cachedData.count = Len(items(cachedData.data))
    /\ lastSent.sent =>
          /\ lastSent.body.hasCount
          /\ lastSent.body.data.kind = "array"
          /\ lastSent.body.count = Len(items(lastSent.body.data))

\* C3: a request that arrives while a snapshot is cached and
\* now - lastFetchTime < 120000 is answered with exactly the cached snapshot,
\* calls no scanner, fetcher, decoder or fallback generator, and leaves
\* cachedData and lastFetchTime as they were.
C3_CacheHitFrame ==
    [][\A r \in Clients :
          (RadarRequest(r) /\ cachedData # null /\ clock - lastFetchTime < 120000) =>
             /\ lastSent'.sent /\ lastSent'.hit /\ lastSent'.at = clock
             /\ lastSent'.body = json(cachedData)
             /\ lastSent'.calls = NoCalls
             /\ calls' = calls
             /\ pc' = pc
             /\ cachedData' = cachedData
             /\ lastFetchTime' = lastFetchTime]_vars

\* a hit 119500 ms after the fetch time, answered with a live snapshot
C3_Witness ==
    /\ lastSent.sent /\ lastSent.hit
    /\ lastSent.at - lastFetchTime = 119500
    /\ lastSent.body.source = Live
    /\ lastSent.body = json(cachedData)

\* C4: a request issued less than 120000 ms after a previous 200 response was
\* sent is answered from the cache, with the timestamp and count of that
\* response and without a pipeline run, however long the run behind that
\* response took.
C4_HitWithinTtlOfResponse ==
    [][\A r \in Clients :
          (RadarRequest(r) /\ lastSent.sent /\ clock - lastSent.at < 120000) =>
             /\ pc'[r] = "idle"
             /\ lastSent'.hit
             /\ lastSent'.body.timestamp = lastSent.body.timestamp
             /\ lastSent'.body.count = lastSent.body.count]_vars

\* C5: a request that finds the cache absent or stale makes one pipeline
\* attempt: one listing call, at most one download, at most one decode, the
\* fallback generator at most once and only after a failure; when it
\* completes the cache holds the snapshot it produced and its fetch time,
\* which is later than the fetch time the request found.
C5_OnePipelineAttempt ==
    [][\A r \in Clients :
          /\ (RadarRequest(r) /\ ~(cachedData # null /\ clock - lastFetchTime < 120000)) =>
                /\ pc'[r] = "listing"
                /\ calls'[r] = [scanner |-> 1, fetcher |-> 0, decoder |-> 0, fallback |-> 0]
                /\ now'[r] = clock
                /\ now'[r] > lastFetchTime
                /\ UNCHANGED <<cachedData, lastFetchTime, lastSent>>
          /\ (pc[r] \in InFlight /\ pc'[r] \in InFlight) =>
                /\ calls'[r].scanner = 1
                /\ calls'[r].fetcher <= 1
                /\ calls'[r].decoder = 0
                /\ calls'[r].fallback = 0
                /\ now'[r] = now[r]
          /\ (pc[r] \in InFlight /\ pc'[r] \notin InFlight) =>
                /\ lastSent'.sent /\ ~lastSent'.hit
                /\ lastSent'.calls.scanner = 1
                /\ lastSent'.calls.fetcher <= 1
                /\ lastSent'.calls.decoder <= 1
                /\ lastSent'.calls.fallback <= 1
                /\ lastSent'.calls.decoder + lastSent'.calls.fallback = 1
                /\ lastSent'.calls.fallback = 1 <=> lastSent'.failed # "none"
                /\ lastSent'.calls.fallback = 1 <=> lastSent'.body.source = Generated
                /\ lastSent'.body = json(cachedData')
                /\ lastFetchTime' = now[r]]_vars

\* a run whose download failed has completed: one listing call, one download,
\* no decode, one fallback, and its snapshot and fetch time are in the cache
C5_Witness ==
    /\ lastSent.sent /\ ~lastSent.hit
    /\ lastSent.failed = "download"
    /\ lastSent.calls = [scanner |-> 1, fetcher |-> 1, decoder |-> 0, fallback |-> 1]
    /\ lastSent.body = json(cachedData)
    /\ lastFetchTime = lastSent.issued
    /\ lastSent.at > lastSent.issued

\* C6: a listing call stalled beyond 10000 ms, or a download stalled beyond
\* 30000 ms, is rejected when its timeout expires, so that no request stays
\* without a response: once the timeout of a call has expired the call is no
\* longer pending.
C6_TimeoutRejects ==
    \A r \in Clients : timedOut[r] => pc[r] \notin {"listing", "downloading"}

\* C8: when listing, download and decode succeed and no visited value passes
\* the filter, the snapshot has source "MRMS RALA (Live)", count 0 and an
\* empty data array.
C8_EmptyLiveResult ==
    (CachedRunDecoded("fulfilled") /\ items(cachedData.data) = <<>>) =>
        /\ cachedData.source = Live
        /\ cachedData.count = 0
        /\ json(cachedData).data.kind = "array"
        /\ items(json(cachedData).data) = <<>>
        /\ json(cachedData).hasCount

(***************************************************************************)
(* Properties of the projector                                             *)
(***************************************************************************)
\* C7: every sample emitted by the live projector has, after rounding to one
\* decimal place, a value strictly greater than 5 and strictly less than 80.
C7_EmittedValueInOpenRange ==
    ret.done =>
        \A k \in 1..Len(ret.value.value) :
            ret.value.value[k].value > 50 /\ ret.value.value[k].value < 800

(***************************************************************************)
(* Properties of the scanner                                               *)
(***************************************************************************)
RECURSIVE NumberAt(_, _, _)
\* the number written by the n digits of s from position p
NumberAt(s, p, n) ==
    IF n = 0 THEN 0 ELSE 10 * NumberAt(s, p, n - 1) + (s[p + n - 1] - 48)

\* e is MRMS_ReflectivityAtLowestAltitude_<8 digits>-<6 digits>.grib2, with
\* or without .gz
IsRadarFile(e) ==
    /\ Len(e) \in {55, 58}
    /\ SubSeq(e, 1, 34) = Prefix
    /\ \A k \in 35..42 : IsDigit(e[k])
    /\ e[43] = Dash
    /\ \A k \in 44..49 : IsDigit(e[k])
    /\ SubSeq(e, 50, 55) = ExtGrib2
    /\ Len(e) = 58 => SubSeq(e, 56, 58) = ExtGz

\* the date-time of radar file a is not later than the one of radar file b
NotLater(a, b) ==
    \/ NumberAt(a, 35, 8) < NumberAt(b, 35, 8)
    \/ /\ NumberAt(a, 35, 8) = NumberAt(b, 35, 8)
       /\ NumberAt(a, 44, 6) <= NumberAt(b, 44, 6)

MatchingEntries == {e \in {arg[k] : k \in 1..Len(arg)} : IsRadarFile(e)}

\* C9: for a listing with at least one matching filename the scanner returns
\* the lexicographically greatest matched filename, whose date-time token is
\* the latest among the matches, and isCompressed is true exactly when that
\* name ends in .gz.
C9_ScannerPicksLatest ==
    (ret.done /\ MatchingEntries # {}) =>
        /\ ~ret.value.rejected
        /\ ret.value.value.filename \in MatchingEntries
        /\ \A m \in MatchingEntries :
              /\ m = ret.value.value.filename \/ StrLess(m, ret.value.value.filename)
              /\ NotLater(m, ret.value.value.filename)
        /\ ret.value.value.isCompressed <=>
              SubSeq(ret.value.value.filename,
                     Len(ret.value.value.filename) - 2,
                     Len(ret.value.value.filename)) = ExtGz

\* a listing of files with different date-times, the latest one compressed
\* and not listed last
C9_Witness ==
    /\ ret.done
    /\ ~ret.value.rejected
    /\ ret.value.value.isCompressed
    /\ Len(arg) >= 2
    /\ arg[Len(arg)] # ret.value.value.filename
    /\ \E m \in MatchingEntries : ~NotLater(ret.value.value.filename, m)

(***************************************************************************)
(* Properties of the fallback generator                                    *)
(***************************************************************************)
Abs(x) == IF x < 0 THEN 0 - x ELSE x

InBox(p) ==
    /\ 200000 <= p.lat /\ p.lat <= 550000
    /\ (0 - 1300000) <= p.lon /\ p.lon <= (0 - 600000)

\* C10: the generator returns 550 samples: 400 storm samples, 80 around each
\* of the 5 storm centers, then 150 background samples; every sample lies in
\* 20 <= lat <= 55, -130 <= lon <= -60; a storm sample has 5 <= value <= 75,
\* a background sample 5 <= value <= 25.
C10_GeneratorShape ==
    ret.done =>
        /\ Len(ret.value) = 550
        /\ \A k \in 1..Len(ret.value) : InBox(ret.value[k])
        /\ \A k \in 1..400 :
              LET c == stormCenters[((k - 1) \div 80) + 1]
              IN  /\ 50 <= ret.value[k].value /\ ret.value[k].value <= 750
                  /\ Abs(ret.value[k].lat - c.lat) <= c.radius * 1000
                  /\ Abs(ret.value[k].lon - c.lon) <= c.radius * 1000
        /\ \A k \in 401..550 :
              /\ 50 <= ret.value[k].value /\ ret.value[k].value <= 250
              /\ 250000 <= ret.value[k].lat /\ ret.value[k].lat <= 500000
              /\ (0 - 1250000) <= ret.value[k].lon /\ ret.value[k].lon <= (0 - 700000)

\* a generation in which the noise would take a storm value below 5 and the
\* value is 5, and a background value reaches 25
C10_Witness ==
    /\ ret.done
    /\ Len(ret.value) = 550
    /\ \E k \in 1..400 : ret.value[k].value = 50
    /\ \E k \in 401..550 : ret.value[k].value = 250
    /\ \E k \in 1..400 : ret.value[k].lat # stormCenters[((k - 1) \div 80) + 1].lat

(***************************************************************************)
(* C11: a health request is always answered, with status "ok"; cached is  *)
(* true exactly when the cache holds a snapshot; cacheAge is null exactly  *)
(* when cached is false and is otherwise the whole number of seconds,      *)
(* never negative, between lastFetchTime and the time of the request; the  *)
(* request leaves cachedData and lastFetchTime as they were and starts no  *)
(* pipeline stage.                                                         *)
(***************************************************************************)
C11_HealthAnswer ==
    [][/\ serverUp => ENABLED HealthRequest
       /\ health'.status = "ok" =>
             /\ health'.cached = (cachedData # null)
             /\ (health'.cacheAge = null) = ~health'.cached
             /\ health'.cached =>
                   /\ health'.cacheAge.value = (clock - lastFetchTime) \div 1000
                   /\ health'.cacheAge.value * 1000 <= clock - lastFetchTime
                   /\ clock - lastFetchTime < (health'.cacheAge.value + 1) * 1000
                   /\ health'.cacheAge.value >= 0
             /\ UNCHANGED <<cachedData, lastFetchTime, pc, calls, lastSent>>]_vars

\* an answer for a cache that is 119500 ms old
C11_Witness ==
    /\ health.status = "ok"
    /\ health.cached
    /\ health.cacheAge.value = 119
    /\ clock - lastFetchTime = 119500

(***************************************************************************)
(* C12: within a request that runs the live pipeline the stages follow one *)
(* another: the download starts only when the listing has completed, the   *)
(* decompression only when the download has completed, decoding and        *)
(* projection only when the download (and decompression) has completed,    *)
(* and the snapshot of the run is stored and answered only when decoding   *)
(* and projection of that run have settled.                                *)
(***************************************************************************)
C12_StagesSequential ==
    [][\A r \in Clients :
          /\ (pc[r] # "downloading" /\ pc'[r] = "downloading") => pc[r] = "listing"
          /\ (pc[r] # "gunzip" /\ pc'[r] = "gunzip") => pc[r] = "downloading"
          /\ (pc[r] # "parsing" /\ pc'[r] = "parsing") =>
                pc[r] = IF file[r].isCompressed THEN "gunzip" ELSE "downloading"
          /\ (lastSent' # lastSent /\ lastSent'.calls.decoder > 0) =>
                /\ pc'[r] # "parsing"
                /\ cachedData'.data.state # "pending"]_vars

\* a radar request was issued at time t from an empty cache and is still in
\* flight, or the run of a request issued at t has completed and is cached
IssuedInFlight(q, t) == cachedData = null /\ pc[q] \in InFlight /\ now[q] = t

IssuedCompleted(t) == cachedData # null /\ lastFetchTime = t

(***************************************************************************)
(* C13: of two radar requests issued 1 second apart starting from an       *)
(* empty cache, the first is not served from the cache and runs the        *)
(* pipeline, and the second calls neither the scanner nor the fetcher,     *)
(* whether the first has completed or is still in flight when the second   *)
(* arrives.                                                                *)
(***************************************************************************)
C13_SecondSkipsPipeline ==
    [][\A r \in Clients :
          /\ (cachedData = null /\ pc[r] = "idle" /\ lastSent' # lastSent) =>
                ~lastSent'.hit
          /\ (cachedData = null /\ pc[r] = "idle" /\ now'[r] # now[r]) =>
                calls'[r].scanner = 1
          /\ \A q \in Clients \ {r} :
                (/\ pc[r] = "idle"
                 /\ \/ IssuedInFlight(q, clock - 1000)
                    \/ IssuedCompleted(clock - 1000)) =>
                   /\ calls'[r].scanner = calls[r].scanner
                   /\ calls'[r].fetcher = calls[r].fetcher]_vars

\* C13 as amended: the second request calls neither the scanner nor the
\* fetcher when the run of the first has completed before it arrives, and
\* it is answered with the cached snapshot
C13_SecondAfterCompletionSkipsPipeline ==
    [][\A r \in Clients :
          /\ (cachedData = null /\ pc[r] = "idle" /\ lastSent' # lastSent) =>
                ~lastSent'.hit
          /\ (cachedData = null /\ pc[r] = "idle" /\ now'[r] # now[r]) =>
                calls'[r].scanner = 1
          /\ (pc[r] = "idle" /\ IssuedCompleted(clock - 1000)) =>
                /\ calls'[r].scanner = calls[r].scanner
                /\ calls'[r].fetcher = calls[r].fetcher
                /\ pc'[r] = "idle"
          /\ (lastSent' # lastSent /\ pc' = pc /\ IssuedCompleted(clock - 1000)) =>
                /\ lastSent'.hit
                /\ lastSent'.calls = NoCalls
                /\ lastSent'.body = json(cachedData)]_vars

\* the first request ran the live pipeline and a request that arrived one
\* second after it has been answered from the cache
C13_Witness ==
    /\ lastSent.sent
    /\ lastSent.hit
    /\ lastSent.at = lastFetchTime + 1000
    /\ cachedData # null
    /\ cachedData.source = Live
    /\ lastSent.calls.scanner = 0
    /\ lastSent.calls.fetcher = 0

\* the cached snapshot and the fetch time, as one run leaves them
CacheWhole ==
    /\ cachedData = null => lastFetchTime = 0
    /\ cachedData # null =>
          /\ 0 < lastFetchTime /\ lastFetchTime <= clock
          /\ cachedData.count = length(cachedData.data)
          /\ cachedData.source \in {Live, Generated}
          /\ cachedData.source = Live =>
                /\ cachedData.data.kind = "promise"
                /\ cachedData.data.owner \in Clients
                /\ TokenLenAt(cachedData.timestamp, 1) = Len(cachedData.timestamp)
                /\ cachedData.count = undefined
          /\ cachedData.source = Generated =>
                /\ cachedData.data.kind = "array"
                /\ cachedData.data \in { Array(tape) : tape \in Tapes }
                /\ cachedData.count = StormPoints * Len(stormCenters) + BackgroundPoints
    /\ health.status = "ok" =>
          /\ health.cached = (cachedData # null)
          /\ health.cacheAge = cacheAge(clock)

\* a step that changes the snapshot or the fetch time is the completion of
\* one run, which writes both from its own values, or the settling of the
\* promise that is the data of the cached snapshot
WrittenByOneRun ==
    (cachedData' # cachedData \/ lastFetchTime' # lastFetchTime) =>
       \/ \E r \in Clients :
             /\ pc[r] \in InFlight
             /\ pc'[r] \notin InFlight
             /\ lastFetchTime' = now[r]
             /\ \/ /\ pc[r] # "listing"
                   /\ cachedData'.source = Live
                   /\ cachedData' = Snapshot(filenameTimestamp(file[r].filename),
                                             Promise(r), Live)
                \/ /\ cachedData'.source = Generated
                   /\ \E tape \in Tapes :
                         cachedData' = Snapshot(fallbackTimestamp(clock),
                                                Array(tape), Generated)
       \/ \E r \in Clients :
             /\ pc[r] = "parsing"
             /\ lastFetchTime' = lastFetchTime
             /\ cachedData # null
             /\ cachedData.data = Promise(r)
             /\ cachedData'.data.kind = "promise"
             /\ cachedData'.data.owner = r
             /\ cachedData' = [cachedData EXCEPT !.data = cachedData'.data]

(***************************************************************************)
(* C14: whatever the interleaving of radar and health requests, the cache  *)
(* is whole in every state: timestamp, data, count and source of the       *)
(* cached snapshot are those one run produced, lastFetchTime is the time   *)
(* that same run wrote in the same step, and a health answer reports the   *)
(* slot and the fetch time of one state.                                   *)
(***************************************************************************)
C14_CacheNeverTorn == [][CacheWhole /\ CacheWhole' /\ WrittenByOneRun]_vars

\* two runs have overlapped: the run that arrived second has stored its
\* generated snapshot over the live snapshot of the first, whose decoding is
\* still pending, and a health request has been answered since
C14_Witness ==
    /\ cachedData # null
    /\ cachedData.source = Generated
    /\ \E r \in Clients : pc[r] = "parsing"
    /\ lastFetchTime > 1000
    /\ health.status = "ok"
    /\ health.cached

(***************************************************************************)
(* C15: the slot is absent with fetch time 0 from the start until the      *)
(* first radar response; a radar request that finds it absent is never     *)
(* answered from the cache and runs the pipeline;                          *)
(* every run that completes, live or generated, leaves its own snapshot    *)
(* and its own fetch time in the slot; no step makes a filled slot absent. *)
(***************************************************************************)
C15_SlotLifecycle ==
    [][/\ ~lastSent.sent => (cachedData = null /\ lastFetchTime = 0)
       /\ cachedData # null => cachedData' # null
       /\ (cachedData = null /\ lastSent' # lastSent) => ~lastSent'.hit
       /\ \A r \in Clients :
             /\ (cachedData = null /\ pc[r] = "idle" /\ now'[r] # now[r]) =>
                   /\ pc'[r] = "listing"
                   /\ calls'[r].scanner = 1
             /\ (pc[r] \in InFlight /\ pc'[r] \notin InFlight) =>
                   /\ cachedData' # null
                   /\ lastFetchTime' = now[r]
                   /\ lastSent'.body = json(cachedData')
                   /\ IF pc'[r] = "parsing"
                      THEN /\ cachedData'.source = Live
                           /\ cachedData'.data = Promise(r)
                      ELSE /\ cachedData'.source = Generated
                           /\ cachedData'.timestamp = fallbackTimestamp(clock)
                           /\ lastSent'.calls.fallback = 1]_vars

\* the slot has been overwritten: it holds the live snapshot of one run
\* while the decoding of another run, which had stored its own, is pending
C15_Witness ==
    /\ cachedData # null
    /\ cachedData.source = Live
    /\ \E r \in Clients : pc[r] = "parsing" /\ cachedData.data.owner # r

\* the dimensions of the grid the projector works on
GridColumns(message) ==
    IF message.header.ni = 0 THEN DefaultNi ELSE message.header.ni

GridRows(message) ==
    IF message.header.nj = 0 THEN DefaultNj ELSE message.header.nj

\* the cells the claim names: row and column multiples of 25 inside the grid,
\* index inside the value sequence, value strictly between 5 and 80
SampledCells(message) ==
    LET ni == GridColumns(message)
        nj == GridRows(message)
    IN  { c \in { j \in 0..(nj - 1) : j % 25 = 0 } \X { i \in 0..(ni - 1) : i % 25 = 0 } :
            /\ c[1] * ni + c[2] < message.data.length
            /\ DataAt(message.data, c[1] * ni + c[2]) > 500
            /\ DataAt(message.data, c[1] * ni + c[2]) < 8000 }

\* the sample of cell c
SampleOf(message, c) ==
    [lat |-> LatOf(c[1], GridRows(message)),
     lon |-> LonOf(c[2], GridColumns(message)),
     value |-> RoundValue(DataAt(message.data,
                                 c[1] * GridColumns(message) + c[2]))]

(***************************************************************************)
(* C16: for every grid, whatever the length of its value sequence, the     *)
(* projector emits exactly one sample for each cell whose row and column   *)
(* are multiples of 25 inside the grid, whose index row * columns + column *)
(* lies inside the value sequence and whose value is strictly between 5    *)
(* and 80, and no other sample; the samples come row by row from south to  *)
(* north and, within a row, from west to east.                             *)
(***************************************************************************)
C16_ProjectorOutput ==
    ret.done =>
        LET out == ret.value.value
            cells == SampledCells(arg)
        IN  /\ ~ret.value.rejected
            /\ Len(out) = Cardinality(cells)
            /\ { out[k] : k \in 1..Len(out) } = { SampleOf(arg, c) : c \in cells }
            /\ \A k \in 1..(Len(out) - 1) :
                  \/ out[k].lat < out[k + 1].lat
                  \/ out[k].lat = out[k + 1].lat /\ out[k].lon < out[k + 1].lon

\* a 51 x 26 grid whose value sequence stops after 100 values: the three
\* cells of row 0 are inside it, one of them is filtered out, and the cells
\* of row 25 are beyond its end although their pattern value would pass
C16_Witness ==
    /\ ret.done
    /\ arg.header = [ni |-> 51, nj |-> 26]
    /\ arg.data.length = 4 * sampleRate
    /\ arg.data.pattern[1] = 2537
    /\ DataAt(arg.data, 25 * 51) = 2537
    /\ Len(ret.value.value) = 2

\* ts is 8 digits, a hyphen and 6 digits
IsDateTime(ts) ==
    /\ Len(ts) = 15
    /\ \A k \in 1..8 : IsDigit(ts[k])
    /\ ts[9] = Dash
    /\ \A k \in 10..15 : IsDigit(ts[k])

\* ts, a date-time, names the UTC second in which the clock stands at ms; the
\* clock stays within 1970-01-01
NamesSecondOf(ts, ms) ==
    /\ NumberAt(ts, 1, 8) = 19700101
    /\ NumberAt(ts, 10, 2) < 24 /\ NumberAt(ts, 12, 2) < 60 /\ NumberAt(ts, 14, 2) < 60
    /\ NumberAt(ts, 10, 2) * 3600 + NumberAt(ts, 12, 2) * 60 + NumberAt(ts, 14, 2)
          = ms \div 1000

(***************************************************************************)
(* C17: the snapshot a run produces has source "MRMS RALA (Live)" or       *)
(* "Generated (MRMS unavailable)"; its timestamp is the date-time token of *)
(* the filename the scanner selected exactly when the source is the live   *)
(* one, and when the source is the generated one the timestamp is the time *)
(* of the moment, as 8 digits, a hyphen and 6 digits.  The response        *)
(* carries the same timestamp and source.                                  *)
(***************************************************************************)
C17_TimestampBySource ==
    [][\A r \in Clients :
          (pc[r] \in InFlight /\ pc'[r] \notin InFlight) =>
             /\ cachedData'.source \in {Live, Generated}
             /\ lastSent'.body.timestamp = cachedData'.timestamp
             /\ lastSent'.body.source = cachedData'.source
             /\ cachedData'.source = Live =>
                   /\ IsRadarFile(file[r].filename)
                   /\ cachedData'.timestamp = SubSeq(file[r].filename, 35, 49)
                   /\ IsDateTime(cachedData'.timestamp)
             /\ (file[r] # NoFile /\ cachedData'.source # Live) =>
                   cachedData'.timestamp # SubSeq(file[r].filename, 35, 49)
             /\ cachedData'.source = Generated =>
                   /\ IsDateTime(cachedData'.timestamp)
                   /\ NamesSecondOf(cachedData'.timestamp, clock)]_vars

\* the download of the selected file failed two seconds into the day: the
\* snapshot is a generated one and its timestamp is 19700101-000002
C17_Witness ==
    /\ lastSent.sent
    /\ lastSent.failed = "download"
    /\ cachedData # null
    /\ cachedData.source = Generated
    /\ lastSent.body.timestamp = cachedData.timestamp
    /\ NumberAt(cachedData.timestamp, 10, 6) = 2

(***************************************************************************)
(* C18: whatever the sequence and interleaving of radar requests, no step  *)
(* replaces lastFetchTime by an earlier instant.                           *)
(***************************************************************************)
C18_FetchTimeNeverDecreases == [][lastFetchTime' >= lastFetchTime]_vars

====
